---- MODULE Spec2Model ----
(***************************************************************************)
(* keras_extensions.py: AnyShapeEmbedding.get_output_shape_for,            *)
(* TimeDistributedRNN.compute_mask, MaskedFlatten.call / compute_mask and  *)
(* the backend-dispatching switch.  A tensor is a record of its shape, its *)
(* elements indexed by index tuples, its dtype and (for theano) its        *)
(* broadcastable pattern.  Each call of an operation is one action; the    *)
(* state keeps the arguments, the returned value (or the raised error) and *)
(* the primitives the call went through.                                   *)
(***************************************************************************)
EXTENDS Integers, Sequences, FiniteSets, TLC

\* ---------------------------------------------------------------- bounds
MaxDim == 2          \* largest size of one tensor dimension
MaxElems == 8        \* largest number of elements of an input tensor
MaxRank == 3         \* largest rank of an input shape of get_output_shape_for
MaxOutputDim == 2    \* largest configured embedding dimension
MemoElems == 1       \* largest tensor (dimension, elements) of the calls SpecMemo remembers

VARIABLES backend, theano_installed, output_dim, supports_masking,
          pc, op, args, result, trace, sel, memo

vars == <<backend, theano_installed, output_dim, supports_masking,
          pc, op, args, result, trace, sel, memo>>

\* ---------------------------------------------------------------- values
\* Python's None.
None == [kind |-> "None"]

\* An unknown (None) entry of a shape tuple.
Unknown == -1

\* A raised exception: its type and the primitive that raised it.
Error(type, at) == [kind |-> "error", type |-> type, at |-> at]

IsError(v) == v.kind = "error"

Tensor(shape, dtype, bcast, data) ==
    [kind |-> "tensor", shape |-> shape, dtype |-> dtype, bcast |-> bcast, data |-> data]

Last(s) == s[Len(s)]

Front(s) == SubSeq(s, 1, Len(s) - 1)

RECURSIVE MaxOf(_)
MaxOf(s) == IF s = <<>> THEN 1
            ELSE LET m == MaxOf(Tail(s)) IN IF Head(s) > m THEN Head(s) ELSE m

RECURSIVE Prod(_)
Prod(s) == IF s = <<>> THEN 1 ELSE Head(s) * Prod(Tail(s))

\* The index tuples of a tensor of the given shape (1-based).
Indices(shape) ==
    {idx \in [1..Len(shape) -> 1..MaxOf(shape)] : \A d \in 1..Len(shape) : idx[d] <= shape[d]}

NoBcast(shape) == [d \in 1..Len(shape) |-> FALSE]

\* ------------------------------------------------- AnyShapeEmbedding
\* get_output_shape_for putting the embedding dimension first.
get_output_shape_for_prepend(self_output_dim, input_shape) == <<self_output_dim>> \o input_shape

get_output_shape_for(self_output_dim, input_shape) == input_shape \o <<self_output_dim>>

\* ------------------------------------------------- TimeDistributedRNN
\* K.any(x, axis=-1): cast to bool, reduce_any over the last axis.
RECURSIVE AnyUpTo(_, _, _)
AnyUpTo(x, idx, k) ==
    IF k = 0 THEN FALSE
    ELSE AnyUpTo(x, idx, k - 1) \/ (x.data[idx \o <<k>>] # 0)

K_any(x) ==
    IF Len(x.shape) = 0 THEN Error("ValueError", "K.any")
    ELSE Tensor(Front(x.shape), "bool", Front(x.bcast),
                [idx \in Indices(Front(x.shape)) |->
                    IF AnyUpTo(x, idx, Last(x.shape)) THEN 1 ELSE 0])

RECURSIVE AllUpTo(_, _, _)
AllUpTo(x, idx, k) ==
    IF k = 0 THEN TRUE
    ELSE AllUpTo(x, idx, k - 1) /\ (x.data[idx \o <<k>>] # 0)

\* compute_mask reducing with all instead of any.
TimeDistributedRNN_compute_mask_all(x, input_mask) ==
    IF input_mask = None THEN None
    ELSE Tensor(Front(input_mask.shape), "bool", Front(input_mask.bcast),
                [idx \in Indices(Front(input_mask.shape)) |->
                    IF AllUpTo(input_mask, idx, Last(input_mask.shape)) THEN 1 ELSE 0])

TimeDistributedRNN_compute_mask(x, input_mask) ==
    IF input_mask = None THEN None ELSE K_any(input_mask)

\* ------------------------------------------------- backend primitives
\* K.expand_dims(x): a new trailing axis of size 1 (broadcastable on theano,
\* where it is dimshuffle(..., 'x')).
K_expand_dims(x) ==
    Tensor(x.shape \o <<1>>, x.dtype, x.bcast \o <<TRUE>>,
           [idx \in Indices(x.shape \o <<1>>) |-> x.data[Front(idx)]])

\* K.zeros_like(x)
K_zeros_like(x) ==
    Tensor(x.shape, x.dtype, x.bcast, [idx \in Indices(x.shape) |-> 0])

\* tf.cast(x, tf.float32): False/True become 0.0/1.0, numbers keep their value.
tf_cast_float32(x) == Tensor(x.shape, "float32", x.bcast, x.data)

\* tf.cast(x, tf.bool): every non-zero element is True.
tf_cast_bool(x) ==
    Tensor(x.shape, "bool", x.bcast,
           [idx \in Indices(x.shape) |-> IF x.data[idx] # 0 THEN 1 ELSE 0])

\* tf.ones(shape)
tf_ones(shape) == Tensor(shape, "float32", NoBcast(shape), [idx \in Indices(shape) |-> 1])

RECURSIVE DotSum(_, _, _, _)
DotSum(x, y, idx, m) ==
    IF m = 0 THEN 0
    ELSE DotSum(x, y, idx, m - 1) + x.data[Front(idx) \o <<m>>] * y.data[<<m, Last(idx)>>]

\* K.dot(x, y) of the tensorflow backend, y a matrix: tf.matmul for a matrix x,
\* and for rank > 2 the product over x's last axis (reshape, matmul, reshape).
K_dot(x, y) ==
    IF Len(x.shape) < 2 \/ Last(x.shape) # y.shape[1]
    THEN Error("ValueError", "K.dot")
    ELSE LET shape == Front(x.shape) \o <<y.shape[2]>>
         IN  Tensor(shape, "float32", NoBcast(shape),
                    [idx \in Indices(shape) |-> DotSum(x, y, idx, Last(x.shape))])

\* tf.where(condition, x, y) of TensorFlow 1.x: condition has x's shape and
\* selects elementwise, or is a vector as long as x's first dimension and
\* selects whole rows; anything else is a shape error.  No broadcasting.
tf_where(c, x, y) ==
    IF x.shape # y.shape THEN Error("ValueError", "tf.where")
    ELSE IF c.shape = x.shape
    THEN Tensor(x.shape, x.dtype, NoBcast(x.shape),
                [idx \in Indices(x.shape) |->
                    IF c.data[idx] # 0 THEN x.data[idx] ELSE y.data[idx]])
    ELSE IF Len(c.shape) = 1 /\ Len(x.shape) >= 1 /\ c.shape[1] = x.shape[1]
    THEN Tensor(x.shape, x.dtype, NoBcast(x.shape),
                [idx \in Indices(x.shape) |->
                    IF c.data[<<idx[1]>>] # 0 THEN x.data[idx] ELSE y.data[idx]])
    ELSE Error("ValueError", "tf.where")

\* Theano's elementwise broadcasting: shapes are aligned at the trailing
\* axis; an input is stretched along an axis only where its type marks the
\* axis broadcastable (missing leading axes are).
PadShape(t, r) == [d \in 1..r |-> IF d <= r - Len(t.shape) THEN 1
                                   ELSE t.shape[d - (r - Len(t.shape))]]

PadBcast(t, r) == [d \in 1..r |-> IF d <= r - Len(t.shape) THEN TRUE
                                   ELSE t.bcast[d - (r - Len(t.shape))]]

\* The element of t the output element idx (of rank r) reads.
Proj(t, r, idx) ==
    [d \in 1..Len(t.shape) |->
        IF t.bcast[d] THEN 1 ELSE idx[d + (r - Len(t.shape))]]

Max3(a, b, c) == IF a >= b /\ a >= c THEN a ELSE IF b >= c THEN b ELSE c

\* theano.tensor.switch(cond, ift, iff)
T_switch(c, x, y) ==
    LET r == Max3(Len(c.shape), Len(x.shape), Len(y.shape))
        ins == <<c, x, y>>
        fixed(d) == {PadShape(ins[i], r)[d] : i \in {j \in 1..3 : ~PadBcast(ins[j], r)[d]}}
        shape == [d \in 1..r |-> IF fixed(d) = {} THEN 1 ELSE CHOOSE n \in fixed(d) : TRUE]
        bcast == [d \in 1..r |-> fixed(d) = {}]
    IN  IF \E d \in 1..r : Cardinality(fixed(d)) > 1
        THEN Error("ValueError", "T.switch")
        ELSE Tensor(shape, x.dtype, bcast,
                    [idx \in Indices(shape) |->
                        IF c.data[Proj(c, r, idx)] # 0
                        THEN x.data[Proj(x, r, idx)]
                        ELSE y.data[Proj(y, r, idx)]])

\* ------------------------------------------------- switch
\* What a call hands back: the value returned (or the error raised), the
\* primitives it went through, and the condition that reached the select.
Ret(value, tr, c) == [value |-> value, trace |-> tr, sel |-> c]

\* switch's tensorflow branch without the trailing-axis broadcast.
switch_tf_nobroadcast(cond, then_tensor, else_tensor) ==
    IF Len(cond.shape) = 0 \/ Len(then_tensor.shape) = 0
    THEN Ret(Error("IndexError", "get_shape"), <<"get_shape">>, None)
    ELSE Ret(tf_where(tf_cast_bool(cond), then_tensor, else_tensor),
             <<"get_shape", "tf.where">>, cond)

\* switch's tensorflow branch broadcasting on any trailing mismatch.
switch_tf_anymismatch(cond, then_tensor, else_tensor) ==
    LET cond_shape == cond.shape
        input_shape == then_tensor.shape
    IN  IF Len(cond_shape) = 0 \/ Len(input_shape) = 0
        THEN Ret(Error("IndexError", "get_shape"), <<"get_shape">>, None)
        ELSE IF Last(cond_shape) # Last(input_shape)
        THEN LET c == K_dot(tf_cast_float32(cond), tf_ones(<<1, Last(input_shape)>>))
             IN  IF IsError(c) THEN Ret(c, <<"get_shape", "K.dot">>, None)
                 ELSE Ret(tf_where(tf_cast_bool(c), then_tensor, else_tensor),
                          <<"get_shape", "K.dot", "tf.where">>, c)
        ELSE Ret(tf_where(tf_cast_bool(cond), then_tensor, else_tensor),
                 <<"get_shape", "tf.where">>, cond)

switch_tf(cond, then_tensor, else_tensor) ==
    LET cond_shape == cond.shape
        input_shape == then_tensor.shape
    IN  IF Len(cond_shape) = 0 \/ Len(input_shape) = 0
        THEN Ret(Error("IndexError", "get_shape"), <<"get_shape">>, None)
        ELSE IF Last(cond_shape) # Last(input_shape) /\ Last(cond_shape) = 1
        THEN LET c == K_dot(tf_cast_float32(cond), tf_ones(<<1, Last(input_shape)>>))
             IN  IF IsError(c) THEN Ret(c, <<"get_shape", "K.dot">>, None)
                 ELSE Ret(tf_where(tf_cast_bool(c), then_tensor, else_tensor),
                          <<"get_shape", "K.dot", "tf.where">>, c)
        ELSE Ret(tf_where(tf_cast_bool(cond), then_tensor, else_tensor),
                 <<"get_shape", "tf.where">>, cond)

\* switch's else branch with then and else exchanged in T.switch.
switch_else_swapped(bk, installed, cond, then_tensor, else_tensor) ==
    IF ~installed
    THEN Ret(Error("ImportError", "import theano.tensor"), <<"import theano.tensor">>, None)
    ELSE IF bk # "theano"
    THEN Ret(Error("TypeError", "T.switch"), <<"import theano.tensor", "T.switch">>, None)
    ELSE Ret(T_switch(cond, else_tensor, then_tensor),
             <<"import theano.tensor", "T.switch">>, cond)

\* The else branch: import theano.tensor, then T.switch.  Under a backend
\* that is not theano the import fails when theano is not installed, and
\* T.switch rejects the foreign backend's tensors when it is.
switch_else(bk, installed, cond, then_tensor, else_tensor) ==
    IF ~installed
    THEN Ret(Error("ImportError", "import theano.tensor"), <<"import theano.tensor">>, None)
    ELSE IF bk # "theano"
    THEN Ret(Error("TypeError", "T.switch"), <<"import theano.tensor", "T.switch">>, None)
    ELSE Ret(T_switch(cond, then_tensor, else_tensor),
             <<"import theano.tensor", "T.switch">>, cond)

\* switch testing for theano and sending every other backend to tensorflow.
switch_default_tf(bk, installed, cond, then_tensor, else_tensor) ==
    IF bk = "theano"
    THEN switch_else(bk, installed, cond, then_tensor, else_tensor)
    ELSE switch_tf(cond, then_tensor, else_tensor)

switch(bk, installed, cond, then_tensor, else_tensor) ==
    IF bk = "tensorflow"
    THEN switch_tf(cond, then_tensor, else_tensor)
    ELSE switch_else(bk, installed, cond, then_tensor, else_tensor)

\* ------------------------------------------------- MaskedFlatten
\* Row-major position (1-based) of idx in a tensor of the given shape.
RECURSIVE Ravel(_, _)
Ravel(idx, shape) ==
    IF idx = <<>> THEN 1
    ELSE (Head(idx) - 1) * Prod(Tail(shape)) + Ravel(Tail(idx), Tail(shape))

\* Flatten.call: K.batch_flatten, every axis after the first collapsed
\* into one, in row-major order.
Flatten_call(x) ==
    IF Len(x.shape) = 0 THEN Error("ValueError", "Flatten.call")
    ELSE LET shape == <<x.shape[1], Prod(Tail(x.shape))>>
         IN  Tensor(shape, x.dtype, NoBcast(shape),
                    [o \in Indices(shape) |->
                        x.data[CHOOSE idx \in Indices(x.shape) :
                                  idx[1] = o[1] /\ Ravel(Tail(idx), Tail(x.shape)) = o[2]]])

\* MaskedFlatten.call keeping the masked positions and zeroing the others.
MaskedFlatten_call_swapped(bk, installed, inputs, mask) ==
    IF mask # None
    THEN LET sw == switch(bk, installed, K_expand_dims(mask), K_zeros_like(inputs), inputs)
             tr == <<"K.expand_dims", "K.zeros_like", "switch">> \o sw.trace
         IN  IF IsError(sw.value) THEN Ret(sw.value, tr, sw.sel)
             ELSE Ret(Flatten_call(sw.value), tr \o <<"Flatten.call">>, sw.sel)
    ELSE Ret(Flatten_call(inputs), <<"Flatten.call">>, None)

\* MaskedFlatten.call with the test of the mask inverted.
MaskedFlatten_call_inverted(bk, installed, inputs, mask) ==
    IF mask = None
    THEN Ret(Error("AttributeError", "K.expand_dims"), <<"K.expand_dims">>, None)
    ELSE Ret(Flatten_call(inputs), <<"Flatten.call">>, None)

MaskedFlatten_call(bk, installed, inputs, mask) ==
    IF mask # None
    THEN LET sw == switch(bk, installed, K_expand_dims(mask), inputs, K_zeros_like(inputs))
             tr == <<"K.expand_dims", "K.zeros_like", "switch">> \o sw.trace
         IN  IF IsError(sw.value) THEN Ret(sw.value, tr, sw.sel)
             ELSE Ret(Flatten_call(sw.value), tr \o <<"Flatten.call">>, sw.sel)
    ELSE Ret(Flatten_call(inputs), <<"Flatten.call">>, None)

\* MaskedFlatten.compute_mask handing the incoming mask on.
MaskedFlatten_compute_mask_passes(inputs, mask) == mask

MaskedFlatten_compute_mask(inputs, mask) == None

\* ------------------------------------------------- inputs
Backends == {"tensorflow", "theano", "cntk"}

\* Input shapes of get_output_shape_for: rank 1..maxRank, entries known or not.
InputShapes(maxRank, maxDim) ==
    UNION {[1..r -> {Unknown} \cup 1..maxDim] : r \in 1..maxRank}

\* Shapes (b, t, f) of at most maxElems elements.
Shapes3(maxDim, maxElems) == {s \in [1..3 -> 1..maxDim] : Prod(s) <= maxElems}

\* A boolean-like tensor is drawn as a 0/1 pattern and the value its true
\* elements hold: bool (True is 1) or float32 (any non-zero value, here 2).
BoolType == [dtype |-> "bool", true |-> 1]

CondTypes == {BoolType, [dtype |-> "float32", true |-> 2]}

\* Only a trailing axis of size 1 may be marked broadcastable.
BcastPatterns(shape) ==
    {bc \in [1..Len(shape) -> BOOLEAN] :
        \A d \in 1..Len(shape) : bc[d] => (d = Len(shape) /\ shape[d] = 1)}

CondTensors(shape, types) ==
    {Tensor(shape, ty.dtype, bc, [idx \in Indices(shape) |-> p[idx] * ty.true]) :
        p \in [Indices(shape) -> {0, 1}], ty \in types, bc \in BcastPatterns(shape)}

Masks(shape) ==
    {Tensor(shape, "bool", NoBcast(shape), p) : p \in [Indices(shape) -> {0, 1}]}

\* The digits of an index tuple read as a decimal number: distinct per position.
RECURSIVE PosCode(_)
PosCode(idx) == IF idx = <<>> THEN 0 ELSE 10 * PosCode(Front(idx)) + Last(idx)

\* A float tensor whose elements are all distinct and not negative, the
\* first one 0.
Ramp(shape) ==
    Tensor(shape, "float32", NoBcast(shape),
           [idx \in Indices(shape) |->
               PosCode(idx) - PosCode([d \in 1..Len(shape) |-> 1])])

Fill(shape, v) == Tensor(shape, "float32", NoBcast(shape), [idx \in Indices(shape) |-> v])

\* The conditions switch is called with for a then_tensor of shape s: of
\* rank 3 with any trailing size, or a vector.
SwitchConds(s, maxDim, maxElems, types, withVectors) ==
    UNION {CondTensors(<<s[1], s[2], fc>>, types) :
              fc \in {k \in 1..maxDim : s[1] * s[2] * k <= maxElems}}
    \cup (IF withVectors THEN UNION {CondTensors(<<n>>, types) : n \in 1..maxDim} ELSE {})

\* ------------------------------------------------- state machine
\* A call leaves its arguments, returned value and path in the caller's frame.
Returned(name, a, ret) ==
    /\ pc' = "returned"
    /\ op' = name
    /\ args' = a
    /\ result' = ret.value
    /\ trace' = ret.trace
    /\ sel' = ret.sel

\* The layers are constructed (MaskedFlatten.__init__ sets supports_masking)
\* and the backend is chosen before any call.
Config ==
    /\ backend \in Backends
    /\ theano_installed \in BOOLEAN
    /\ backend = "theano" => theano_installed
    /\ backend = "tensorflow" => ~theano_installed
    /\ output_dim \in 1..MaxOutputDim
    /\ supports_masking = TRUE

NoCall ==
    /\ pc = "idle"
    /\ op = "none"
    /\ args = None
    /\ result = None
    /\ trace = <<>>
    /\ sel = None

Init ==
    /\ Config
    /\ NoCall
    /\ memo = None

Do_get_output_shape_for(input_shape) ==
    /\ Returned("get_output_shape_for", [input_shape |-> input_shape],
                Ret([kind |-> "shape", dims |-> get_output_shape_for(output_dim, input_shape)],
                    <<>>, None))
    /\ UNCHANGED <<backend, theano_installed, output_dim, supports_masking>>

Do_TimeDistributedRNN_compute_mask(x, input_mask) ==
    /\ Returned("TimeDistributedRNN.compute_mask", [x |-> x, input_mask |-> input_mask],
                Ret(TimeDistributedRNN_compute_mask(x, input_mask),
                    IF input_mask = None THEN <<>> ELSE <<"K.any">>, None))
    /\ UNCHANGED <<backend, theano_installed, output_dim, supports_masking>>

Do_MaskedFlatten_call(inputs, mask) ==
    /\ Returned("MaskedFlatten.call", [inputs |-> inputs, mask |-> mask],
                MaskedFlatten_call(backend, theano_installed, inputs, mask))
    /\ UNCHANGED <<backend, theano_installed, output_dim, supports_masking>>

\* MaskedFlatten.compute_mask clearing supports_masking once it has run.
Do_MaskedFlatten_compute_mask_consumes(inputs, mask) ==
    /\ Returned("MaskedFlatten.compute_mask", [inputs |-> inputs, mask |-> mask],
                Ret(MaskedFlatten_compute_mask(inputs, mask), <<>>, None))
    /\ supports_masking' = FALSE
    /\ UNCHANGED <<backend, theano_installed, output_dim>>

Do_MaskedFlatten_compute_mask(inputs, mask) ==
    /\ Returned("MaskedFlatten.compute_mask", [inputs |-> inputs, mask |-> mask],
                Ret(MaskedFlatten_compute_mask(inputs, mask), <<>>, None))
    /\ UNCHANGED <<backend, theano_installed, output_dim, supports_masking>>

Do_switch(cond, then_tensor, else_tensor) ==
    /\ Returned("switch",
                [cond |-> cond, then_tensor |-> then_tensor, else_tensor |-> else_tensor],
                switch(backend, theano_installed, cond, then_tensor, else_tensor))
    /\ UNCHANGED <<backend, theano_installed, output_dim, supports_masking>>

\* The argument x of compute_mask: absent, or some tensor.
XInputs == {None, Ramp(<<1, 1, 1>>)}

Call_get_output_shape_for ==
    /\ pc = "idle"
    /\ \E input_shape \in InputShapes(MaxRank, MaxDim) : Do_get_output_shape_for(input_shape)
    /\ UNCHANGED memo

Call_TimeDistributedRNN_compute_mask ==
    /\ pc = "idle"
    /\ \E x \in XInputs :
       \E input_mask \in {None} \cup UNION {Masks(s) : s \in Shapes3(MaxDim, MaxElems)} :
          Do_TimeDistributedRNN_compute_mask(x, input_mask)
    /\ UNCHANGED memo

Call_MaskedFlatten_call ==
    /\ pc = "idle"
    /\ \E s \in Shapes3(MaxDim, MaxElems) :
       \E mask \in {None} \cup Masks(<<s[1], s[2]>>) :
          Do_MaskedFlatten_call(Ramp(s), mask)
    /\ UNCHANGED memo

Call_MaskedFlatten_compute_mask ==
    /\ pc = "idle"
    /\ \E s \in Shapes3(MaxDim, MaxElems) :
       \E mask \in {None} \cup Masks(<<s[1], s[2]>>) :
          Do_MaskedFlatten_compute_mask(Ramp(s), mask)
    /\ UNCHANGED memo

Call_switch ==
    /\ pc = "idle"
    /\ \E s \in Shapes3(MaxDim, MaxElems) :
       \E cond \in SwitchConds(s, MaxDim, MaxElems, CondTypes, TRUE) :
          Do_switch(cond, Ramp(s), Fill(s, -1))
    /\ UNCHANGED memo

\* The call has returned: its frame (arguments, locals, returned value) is
\* dropped and the caller is ready for the next call.
Release ==
    /\ pc = "returned"
    /\ pc' = "idle"
    /\ op' = "none"
    /\ args' = None
    /\ result' = None
    /\ trace' = <<>>
    /\ sel' = None
    /\ UNCHANGED <<backend, theano_installed, output_dim, supports_masking, memo>>

Next ==
    \/ Release
    \/ Call_get_output_shape_for
    \/ Call_TimeDistributedRNN_compute_mask
    \/ Call_MaskedFlatten_call
    \/ Call_MaskedFlatten_compute_mask
    \/ Call_switch

Spec == Init /\ [][Next]_vars

\* ------------------------------------------------- remembered calls
\* SpecMemo runs the same calls on small inputs and keeps one earlier call
\* (its operation, arguments and result) to compare later calls with;
\* between records that a different call has run since.
Remember ==
    memo' \in
        IF memo = None
        THEN {None, [op |-> op', args |-> args', result |-> result', between |-> FALSE]}
        ELSE {[memo EXCEPT !.between = @ \/ memo.op # op' \/ memo.args # args']}

Memo_get_output_shape_for ==
    /\ pc = "idle"
    /\ \E input_shape \in InputShapes(2, MemoElems) :
          Do_get_output_shape_for(input_shape)
    /\ Remember

Memo_TimeDistributedRNN_compute_mask ==
    /\ pc = "idle"
    /\ \E input_mask \in {None} \cup UNION {Masks(s) : s \in Shapes3(MemoElems, MemoElems)} :
          Do_TimeDistributedRNN_compute_mask(None, input_mask)
    /\ Remember

Memo_MaskedFlatten_call ==
    /\ pc = "idle"
    /\ \E s \in Shapes3(MemoElems, MemoElems) :
       \E mask \in {None} \cup Masks(<<s[1], s[2]>>) :
          Do_MaskedFlatten_call(Ramp(s), mask)
    /\ Remember

Memo_MaskedFlatten_compute_mask ==
    /\ pc = "idle"
    /\ \E s \in Shapes3(MemoElems, MemoElems) :
       \E mask \in {None} \cup Masks(<<s[1], s[2]>>) :
          Do_MaskedFlatten_compute_mask(Ramp(s), mask)
    /\ Remember

Memo_switch ==
    /\ pc = "idle"
    /\ \E s \in Shapes3(MemoElems, MemoElems) :
       \E cond \in SwitchConds(s, MemoElems, MemoElems, {BoolType}, FALSE) :
          Do_switch(cond, Ramp(s), Fill(s, -1))
    /\ Remember

NextMemo ==
    \/ Release
    \/ Memo_get_output_shape_for
    \/ Memo_TimeDistributedRNN_compute_mask
    \/ Memo_MaskedFlatten_call
    \/ Memo_MaskedFlatten_compute_mask
    \/ Memo_switch

SpecMemo == Init /\ [][NextMemo]_vars

\* ------------------------------------------------- properties
Supported == {"tensorflow", "theano"}

Called(name) == pc = "returned" /\ op = name

\* C1: get_output_shape_for(S) is S with output_dim appended: the first
\* rank(S) entries are those of S in order, the last entry is output_dim,
\* and the output rank is the input rank + 1.
C1_OutputShapeAppendsDim ==
    Called("get_output_shape_for") =>
        LET S == args.input_shape
            R == result.dims
        IN  /\ Len(R) = Len(S) + 1
            /\ \A i \in 1..Len(S) : R[i] = S[i]
            /\ R[Len(R)] = output_dim

C1_Witness ==
    /\ Called("get_output_shape_for")
    /\ args.input_shape = <<Unknown, 2>>
    /\ output_dim = 1
    /\ result.dims = <<Unknown, 2, 1>>

\* C2: TimeDistributedRNN.compute_mask returns None for a None mask, and
\* otherwise the mask OR-reduced along its innermost axis: the output at
\* (b, t) is True iff some input_mask[b, t, k] is True.  The result is the
\* same for every x.
C2_ComputeMaskIsAnyOverLastAxis ==
    Called("TimeDistributedRNN.compute_mask") =>
        LET m == args.input_mask IN
        /\ m = None => result = None
        /\ m # None =>
            /\ result.kind = "tensor"
            /\ result.shape = Front(m.shape)
            /\ \A idx \in Indices(Front(m.shape)) :
                  /\ result.data[idx] \in {0, 1}
                  /\ result.data[idx] = 1 <=>
                        \E k \in 1..Last(m.shape) : m.data[idx \o <<k>>] # 0
        /\ \A x \in XInputs : TimeDistributedRNN_compute_mask(x, m) = result

C2_Witness ==
    /\ Called("TimeDistributedRNN.compute_mask")
    /\ args.x # None
    /\ args.input_mask # None
    /\ args.input_mask.shape = <<2, 2, 2>>
    /\ args.input_mask.data[<<1, 2, 1>>] = 0 /\ args.input_mask.data[<<1, 2, 2>>] = 0
    /\ args.input_mask.data[<<2, 1, 1>>] = 0 /\ args.input_mask.data[<<2, 1, 2>>] = 1
    /\ result.data[<<1, 2>>] = 0
    /\ result.data[<<2, 1>>] = 1

\* C3: under a supported backend MaskedFlatten.call with a mask of shape
\* (b, t) on an input of shape (b, t, f) returns a tensor of shape (b, t*f)
\* that is zero where the element comes from a position with mask False and
\* the input's value where it comes from a position with mask True, in the
\* order of the unmasked flatten.
C3_MaskedFlattenZeroesMasked ==
    (Called("MaskedFlatten.call") /\ args.mask # None /\ backend \in Supported) =>
        LET x == args.inputs
            b == x.shape[1]
            t == x.shape[2]
            f == x.shape[3]
        IN  /\ result.kind = "tensor"
            /\ result.shape = <<b, t * f>>
            /\ \A i \in 1..b, j \in 1..t, k \in 1..f :
                  result.data[<<i, (j - 1) * f + k>>] =
                      IF args.mask.data[<<i, j>>] # 0 THEN x.data[<<i, j, k>>] ELSE 0

C3_Witness ==
    /\ Called("MaskedFlatten.call")
    /\ backend = "tensorflow"
    /\ args.mask # None
    /\ args.inputs.shape = <<2, 2, 2>>
    /\ args.mask.data[<<1, 2>>] = 0
    /\ args.mask.data[<<2, 2>>] = 1
    /\ args.inputs.data[<<1, 2, 1>>] # 0
    /\ result.data[<<1, 3>>] = 0
    /\ result.data[<<1, 4>>] = 0
    /\ result.data[<<2, 3>>] = args.inputs.data[<<2, 2, 1>>]

\* C4: MaskedFlatten.compute_mask returns None for every input and every
\* incoming mask, after any sequence of calls.
C4_FlattenMaskIsNone ==
    Called("MaskedFlatten.compute_mask") => result = None

C4_Witness ==
    /\ Called("MaskedFlatten.compute_mask")
    /\ args.mask # None
    /\ \E idx \in Indices(args.mask.shape) : args.mask.data[idx] = 1
    /\ result = None

\* C5: MaskedFlatten.call with mask None does not go through switch and
\* returns the base flatten of the unchanged input, element for element.
C5_NoMaskPassesThrough ==
    (Called("MaskedFlatten.call") /\ args.mask = None) =>
        LET x == args.inputs
            b == x.shape[1]
            t == x.shape[2]
            f == x.shape[3]
        IN  /\ trace = <<"Flatten.call">>
            /\ sel = None
            /\ result.kind = "tensor"
            /\ result.shape = <<b, t * f>>
            /\ \A i \in 1..b, j \in 1..t, k \in 1..f :
                  result.data[<<i, (j - 1) * f + k>>] = x.data[<<i, j, k>>]

C5_Witness ==
    /\ Called("MaskedFlatten.call")
    /\ args.mask = None
    /\ args.inputs.shape = <<2, 2, 2>>
    /\ result.shape = <<2, 4>>
    /\ result.data[<<2, 3>>] = args.inputs.data[<<2, 2, 1>>]
    /\ result.data[<<2, 3>>] # 0

\* C6: on the tensorflow backend, switch with cond of shape (b, t, 1) and
\* then_tensor / else_tensor of shape (b, t, f), f > 1, returns a tensor of
\* shape (b, t, f) whose element (i, j, k) is then_tensor's when
\* cond[i, j, 0] is true and else_tensor's when it is false.
C6_TfBroadcastSelectsSlices ==
    (/\ Called("switch")
     /\ backend = "tensorflow"
     /\ Len(args.cond.shape) = 3
     /\ args.cond.shape[3] = 1
     /\ args.then_tensor.shape[3] > 1
     /\ Front(args.cond.shape) = Front(args.then_tensor.shape)) =>
        /\ result.kind = "tensor"
        /\ result.shape = args.then_tensor.shape
        /\ \A idx \in Indices(args.then_tensor.shape) :
              result.data[idx] =
                  IF args.cond.data[<<idx[1], idx[2], 1>>] # 0
                  THEN args.then_tensor.data[idx]
                  ELSE args.else_tensor.data[idx]

C6_Witness ==
    /\ Called("switch")
    /\ backend = "tensorflow"
    /\ args.cond.shape = <<2, 2, 1>>
    /\ args.then_tensor.shape = <<2, 2, 2>>
    /\ args.cond.dtype = "float32"
    /\ args.cond.data[<<1, 2, 1>>] = 0
    /\ args.cond.data[<<2, 1, 1>>] = 2
    /\ result.data[<<1, 2, 1>>] = args.else_tensor.data[<<1, 2, 1>>]
    /\ result.data[<<1, 2, 2>>] = args.else_tensor.data[<<1, 2, 2>>]
    /\ result.data[<<2, 1, 1>>] = args.then_tensor.data[<<2, 1, 1>>]
    /\ result.data[<<2, 1, 2>>] = args.then_tensor.data[<<2, 1, 2>>]

\* The outcomes of the two branches of switch on the arguments of the call.
OnTensorflow == switch("tensorflow", FALSE, args.cond, args.then_tensor, args.else_tensor).value

OnTheano == switch("theano", TRUE, args.cond, args.then_tensor, args.else_tensor).value

\* Two outcomes agree: both raise, or both return the same elements.
SameOutcome(v, w) ==
    \/ IsError(v) /\ IsError(w)
    \/ /\ ~IsError(v) /\ ~IsError(w)
       /\ v.shape = w.shape
       /\ v.data = w.data

AgreedConds ==
    \/ args.cond.shape = args.then_tensor.shape
    \/ /\ Len(args.cond.shape) = Len(args.then_tensor.shape)
       /\ Len(args.cond.shape) >= 2
       /\ Front(args.cond.shape) = Front(args.then_tensor.shape)
       /\ Last(args.cond.shape) = 1
       /\ Last(args.cond.bcast)

C8_UnsupportedBackendFailsAtDelegation ==
    (Called("switch") /\ backend \notin Supported) =>
        /\ IsError(result)
        /\ result.at \in {"import theano.tensor", "T.switch"}
        /\ trace # <<>>
        /\ Head(trace) = "import theano.tensor"
        /\ Last(trace) = result.at

C8_Witness ==
    /\ Called("switch")
    /\ backend = "cntk"
    /\ theano_installed
    /\ args.cond.shape = args.then_tensor.shape
    /\ result = Error("TypeError", "T.switch")

\* C9: no call changes the backend identifier or the layers' configuration,
\* and a call returns what an earlier call of the same operation with equal
\* arguments returned, whatever ran in between.
C9_NoStateRetained ==
    [][/\ backend' = backend
       /\ theano_installed' = theano_installed
       /\ output_dim' = output_dim
       /\ supports_masking' = supports_masking
       /\ (pc' = "returned" /\ memo' # None /\ memo'.op = op' /\ memo'.args = args')
             => memo'.result = result']_vars

C9_Witness ==
    /\ Called("MaskedFlatten.call")
    /\ memo # None
    /\ memo.between
    /\ memo.op = op
    /\ memo.args = args
    /\ args.mask # None
    /\ memo.result = result
    /\ supports_masking

\* Whether the call broadcast cond along its trailing axis.
AppliedDot == \E i \in DOMAIN trace : trace[i] = "K.dot"

TrailingOne == Last(args.cond.shape) = 1 /\ Last(args.cond.shape) # Last(args.then_tensor.shape)

====
